---- MODULE Spec2Model ----
(***************************************************************************)
(* pyqsmod: a single-pass interpreter of an OpenArena/Quake3 server log.   *)
(* The log is read line by line (mainProcessing / oneGameProc), each match *)
(* is accumulated in a Game record, retained matches are folded into       *)
(* per-player career totals (player_stats_total), which are ranked         *)
(* (results_ordered), filtered (apply_ban) and projected into tables.      *)
(*                                                                         *)
(* A log line is represented by its classification (the first marker that  *)
(* oneGameProc finds in it) together with the fields the line's parser     *)
(* extracts from its text.                                                 *)
(***************************************************************************)
EXTENDS Integers, Sequences, FiniteSets, TLC

VARIABLES
    pc,         \* position of the run: idle, inmatch, parsed, ranked, ...
    server,     \* Server(): time, frags, gtype, hostname
    N,          \* mainProcessing's game number
    game,       \* the Game under construction (NoGame outside a match)
    valid_game, \* oneGameProc's valid_game flag
    cgames,     \* mainProcessing's cumulative list of games
    left,       \* lines of a match the log may still hold (bound)
    lastLine,   \* history: the line consumed by the last step
    skip,       \* history: inside the stretch that follows an init+warm-up pair
    match,      \* history: the server totals at the last init line, and how
                \* the match it started ended
    R,          \* logToData's R: aggregated, then ranked, then filtered list
    out,        \* the derived tables of logToData
    fault,      \* the exception that ended the run ("" when none)
    unit        \* argument/result record of a function applied on its own

vars == <<pc, server, N, game, valid_game, cgames, left, lastLine, skip, match,
          R, out, fault, unit>>

----------------------------------------------------------------------------
(* Bounds of the model *)

MaxLines == 5
MaxKills == 2
MaxBans == 2
MaxFrags == 2
MaxDeaths == 2
MaxTime == 2

(* Options of the program *)

MAXPLAYERS == 150
MINPLAY_NUM == 1
MINPLAY_DEN == 2
NUMBER_OF_QUOTES == 15
SORT_OPTION == "time"
BAN_LIST == <<"UnnamedPlayer", "a_player_I_dont_like">>
GTYPE_OVERRIDE == ""
SecondsPerDay == 86400

----------------------------------------------------------------------------
(* The alphabet of the log *)

WORLD == "<world>"
Names == {"Foo", "UnnamedPlayer"}
ClientIds == {"0", "1"}
Stamps == {<<0, s>> : s \in 0..MaxTime}
JoinStamps == {<<0, s>> : s \in 0..1}
KillWeapons == {"SHOTGUN", "ROCKET_SPLASH"}
Gametypes == {"0", "4"}
TeamIds == {"1"}
Handicaps == {"absent"}
Pings == {40}
CtfEvents == {"0"}
AwardCodes == {"E"}
TeamScores == {<<1, 0>>}
Quotes == {<<"Foo", "gg">>}

WeaponCodes == {"SHO", "GAU", "MAC", "GRE", "ROC", "PLA", "RAI", "LIG",
                "BFG", "TEL", "NAI", "CHA"}

wlist == <<"SHOTGUN", "GAUNTLET", "MACHINEGUN", "GRENADE", "GRENADE_SPLASH",
           "ROCKET", "ROCKET_SPLASH", "PLASMA", "PLASMA_SPLASH", "RAILGUN",
           "LIGHTNING", "BFG10K", "BFG10K_SPLASH", "TELEFRAG", "NAIL", "CHAIN">>

\* w[0:3]: the first three characters of a weapon token
Prefix3(w) ==
    CASE w \in {"SHOTGUN"} -> "SHO"
      [] w \in {"GAUNTLET"} -> "GAU"
      [] w \in {"MACHINEGUN"} -> "MAC"
      [] w \in {"GRENADE", "GRENADE_SPLASH"} -> "GRE"
      [] w \in {"ROCKET", "ROCKET_SPLASH"} -> "ROC"
      [] w \in {"PLASMA", "PLASMA_SPLASH"} -> "PLA"
      [] w \in {"RAILGUN"} -> "RAI"
      [] w \in {"LIGHTNING"} -> "LIG"
      [] w \in {"BFG10K", "BFG10K_SPLASH"} -> "BFG"
      [] w \in {"TELEFRAG"} -> "TEL"
      [] w \in {"NAIL"} -> "NAI"
      [] w \in {"CHAIN"} -> "CHA"
      [] w \in {"FALLING"} -> "FAL"
      [] OTHER -> "???"

----------------------------------------------------------------------------
(* Helpers on dictionaries and lists *)

EmptyMap == [x \in {} |-> 0]

Put(f, k, v) == (k :> v) @@ f

Values(f) == {f[k] : k \in DOMAIN f}

Range(s) == {s[i] : i \in 1..Len(s)}

MinOf(S) == CHOOSE x \in S : \A y \in S : x <= y

MaxOf(S) == CHOOSE x \in S : \A y \in S : x >= y

RECURSIVE SumSeq(_)
SumSeq(s) == IF s = <<>> THEN 0 ELSE Head(s) + SumSeq(Tail(s))

RECURSIVE SumOver(_, _)
SumOver(f, S) ==
    IF S = {} THEN 0
    ELSE LET k == CHOOSE x \in S : TRUE IN f[k] + SumOver(f, S \ {k})

\* str.count / list.count
CountIn(s, x) == Cardinality({i \in 1..Len(s) : s[i] = x})

----------------------------------------------------------------------------
(* totime: "mmm:ss" to seconds, through timedelta(...).seconds *)

totime(stamp) == (60 * stamp[1] + stamp[2]) % SecondsPerDay

----------------------------------------------------------------------------
(* class Game, class Server *)

\* a variant of NewGame whose id map still holds a binding of an earlier match
NewGameStalePid(number) ==
    [number |-> number, mapname |-> "", gametype |-> "", players |-> EmptyMap,
     pid |-> ("0" :> "Foo"), handicap |-> EmptyMap, teams |-> EmptyMap,
     scores |-> <<>>, awards |-> EmptyMap, killsp |-> (WORLD :> <<>>),
     deathsp |-> EmptyMap, ctf |-> EmptyMap, ptime |-> EmptyMap, time |-> 0,
     validp |-> <<>>, quotes |-> {}, weapons |-> EmptyMap, pos |-> 1,
     ctfscores |-> <<>>]

NoGame == [number |-> 0]

NewGame(number) ==
    [number |-> number, mapname |-> "", gametype |-> "", players |-> EmptyMap,
     pid |-> EmptyMap, handicap |-> EmptyMap, teams |-> EmptyMap,
     scores |-> <<>>, awards |-> EmptyMap, killsp |-> (WORLD :> <<>>),
     deathsp |-> EmptyMap, ctf |-> EmptyMap, ptime |-> EmptyMap, time |-> 0,
     validp |-> <<>>, quotes |-> {}, weapons |-> EmptyMap, pos |-> 1,
     ctfscores |-> <<>>]

NewServer == [time |-> 0, frags |-> 0, gtype |-> 0, hostname |-> ""]

NoLine == [kind |-> "none"]

NoMatch == [t0 |-> 0, f0 |-> 0, n0 |-> 0, ended |-> FALSE, valid |-> FALSE,
            scored |-> 0]

----------------------------------------------------------------------------
(* lineProcInit: map name, host name and game type of an init line *)

\* int(game.gametype), 0 on ValueError
GtypeInt(c) ==
    CASE c = "0" -> 0 [] c = "1" -> 1 [] c = "2" -> 2 [] c = "3" -> 3
      [] c = "4" -> 4 [] c = "5" -> 5 [] c = "6" -> 6 [] c = "7" -> 7
      [] c = "8" -> 8 [] c = "9" -> 9 [] OTHER -> 0

lineProcInit(line, g, srv) ==
    [game |-> [g EXCEPT !.mapname = line.mapname, !.gametype = line.gametype],
     server |-> [srv EXCEPT !.hostname = line.hostname,
                            !.gtype = GtypeInt(line.gametype)]]

----------------------------------------------------------------------------
(* lineProcKills *)

lineProcKills(line, g, srv) ==
    LET killer == line.killer
        killed == line.victim
        weapon == line.weapon
        code == Prefix3(weapon)
        \* the branch on the killer; ok = FALSE when the lookup raises
        first ==
            IF killer = killed
            THEN IF killer \in DOMAIN g.killsp
                 THEN [ok |-> TRUE,
                       g |-> [g EXCEPT !.killsp[killer] = Append(@, weapon)]]
                 ELSE [ok |-> FALSE, g |-> g]
            ELSE IF killer # WORLD
            THEN IF killer \in DOMAIN g.weapons /\ code \in DOMAIN g.weapons[killer]
                 THEN [ok |-> TRUE,
                       g |-> [g EXCEPT !.weapons[killer][code] = @ + 1]]
                 ELSE [ok |-> FALSE, g |-> g]
            ELSE [ok |-> TRUE,
                  g |-> [g EXCEPT !.killsp[WORLD] = Append(@, killed)]]
    IN  IF ~first.ok
        THEN [game |-> first.g, server |-> srv]
        ELSE IF killed \in DOMAIN first.g.deathsp
        THEN [game |-> [first.g EXCEPT !.deathsp[killed] = @ + 1],
              server |-> [srv EXCEPT !.frags = @ + 1]]
        ELSE [game |-> first.g, server |-> srv]

----------------------------------------------------------------------------
(* lineProcCTF, lineProcAwards, lineProcQuotes *)

lineProcCTF(line, g) ==
    IF /\ line.id \in DOMAIN g.pid
       /\ g.pid[line.id] \in DOMAIN g.ctf
       /\ line.event \in DOMAIN g.ctf[g.pid[line.id]]
    THEN [g EXCEPT !.ctf[g.pid[line.id]][line.event] = @ + 1]
    ELSE g

lineProcAwards(line, g) ==
    IF line.name \in DOMAIN g.awards /\ line.award \in DOMAIN g.awards[line.name]
    THEN [g EXCEPT !.awards[line.name][line.award] = @ + 1]
    ELSE g

lineProcQuotes(line, g) ==
    [g EXCEPT !.quotes = @ \cup {<<line.name, line.msg>>}]

----------------------------------------------------------------------------
(* lineProcUserInfo *)

\* handicap: the digits after \hc\, 100 when the key is absent
HandicapOf(hc) == IF hc = "absent" THEN 100 ELSE hc

ZeroAwards == [a \in {"A", "C", "D", "E", "I"} |-> 0]
ZeroCtf == [e \in {"0", "1", "2", "3"} |-> 0]
ZeroWeapons == [w \in WeaponCodes |-> 0]

lineProcUserInfo(line, g) ==
    IF line.name \notin Values(g.pid)
    THEN [g EXCEPT
            !.killsp = Put(@, line.name, <<>>),
            !.deathsp = Put(@, line.name, 0),
            !.awards = Put(@, line.name, ZeroAwards),
            !.handicap = Put(@, line.name, HandicapOf(line.hc)),
            !.teams = Put(@, line.name, line.team),
            !.ctf = Put(@, line.name, ZeroCtf),
            !.weapons = Put(@, line.name, ZeroWeapons),
            !.ptime = Put(@, line.name, totime(line.stamp)),
            !.pid = Put(@, line.id, line.name)]
    ELSE g

----------------------------------------------------------------------------
(* lineProcScores *)

\* a variant of IsValidPlayer that accepts a player at equality
IsValidPlayerAtEquality(g, nick) ==
    MINPLAY_DEN * (g.time - g.ptime[nick])
        >= MINPLAY_NUM * (g.time - MinOf(Values(g.ptime)))

\* the comparison of lines 348-349, MINPLAY = MINPLAY_NUM / MINPLAY_DEN
IsValidPlayer(g, nick) ==
    MINPLAY_DEN * (g.time - g.ptime[nick])
        > MINPLAY_NUM * (g.time - MinOf(Values(g.ptime)))

\* ok = FALSE: game.ptime[nick] raised KeyError
lineProcScores(line, g) ==
    LET g1 == [g EXCEPT !.scores = Append(@, <<line.ping, line.nick>>),
                        !.players = Put(@, line.nick, <<line.ping, g.pos>>),
                        !.pos = @ + 1]
    IN  IF line.nick \notin DOMAIN g1.ptime
        THEN [ok |-> FALSE, game |-> g1]
        ELSE IF IsValidPlayer(g1, line.nick)
        THEN [ok |-> TRUE, game |-> [g1 EXCEPT !.validp = Append(@, line.nick)]]
        ELSE [ok |-> TRUE, game |-> g1]

----------------------------------------------------------------------------
(* The lines a match can read *)

KillLines == [kind : {"kill"}, killer : Names \cup {WORLD}, victim : Names,
              weapon : KillWeapons]
CtfLines == [kind : {"ctf"}, id : ClientIds, event : CtfEvents]
AwardLines == [kind : {"award"}, name : Names, award : AwardCodes]
UserInfoLines == [kind : {"userinfo"}, id : ClientIds, name : Names,
                  hc : Handicaps, team : TeamIds, stamp : JoinStamps]
SayLines == [kind : {"say"}, name : {q[1] : q \in Quotes}, msg : {q[2] : q \in Quotes}]
ScoreLines == [kind : {"score"}, nick : Names, ping : Pings]
RedLines == [kind : {"red"}, red : {s[1] : s \in TeamScores},
             blue : {s[2] : s \in TeamScores}]
ExitLines == [kind : {"exit"}, stamp : Stamps]
InitLines == [kind : {"init"}, mapname : {"q3dm6"}, hostname : {"MyServer"},
              gametype : Gametypes]
\* lines in which oneGameProc finds no marker it acts on
PlainKinds == {"item", "other", "warmup", "init"}

----------------------------------------------------------------------------
(* mainProcessing, lines 140-147: what becomes of a match once oneGameProc *)
(* has returned                                                            *)

Retained(g, valid) == valid /\ DOMAIN g.players # {}

ServerAfter(srv, g, valid) ==
    IF Retained(g, valid)
    THEN [srv EXCEPT !.time = @ + g.time - MinOf(Values(g.ptime))]
    ELSE srv

GamesAfter(games, g, valid) ==
    IF Retained(g, valid) THEN Append(games, g) ELSE games

\* history: the stretch of lines after an init line followed by a warm-up line
SkipAfter(line, where) ==
    IF line.kind = "init" THEN "none"
    ELSE IF lastLine.kind = "init" /\ line.kind = "warmup" THEN where
    ELSE skip

----------------------------------------------------------------------------
(* The run, one step per line read *)

Init ==
    /\ pc = "idle"
    /\ server = NewServer
    /\ N = 1
    /\ game = NoGame
    /\ valid_game = FALSE
    /\ cgames = <<>>
    /\ left = MaxLines
    /\ lastLine = NoLine
    /\ skip = "none"
    /\ match = NoMatch
    /\ R = <<>>
    /\ out = <<>>
    /\ fault = ""
    /\ unit = <<>>

\* mainProcessing, line 134: a line without the init marker is passed over
IdleLine ==
    /\ pc = "idle"
    /\ \E k \in {"kill", "userinfo", "score", "exit", "shutdown", "other"} :
         lastLine' = [kind |-> k]
    /\ UNCHANGED <<pc, server, N, game, valid_game, cgames, left, skip, match, R,
                   out, fault, unit>>

\* line 134: an init line whose next line is a warm-up line; both are consumed
InitWarmup ==
    /\ pc = "idle"
    /\ lastLine' = [kind |-> "warmup"]
    /\ skip' = "idle"
    /\ UNCHANGED <<pc, server, N, game, valid_game, cgames, left, match, R, out,
                   fault, unit>>

\* lines 134-139: an init line whose next line is no warm-up line; next(lines)
\* has consumed that line, and oneGameProc starts with the one after it
InitGame ==
    /\ pc = "idle"
    /\ left > 0
    /\ \E line \in InitLines :
         LET r == lineProcInit(line, NewGame(N), server)
         IN  /\ game' = r.game
             /\ server' = r.server
    /\ \E nxt \in UserInfoLines \cup {[kind |-> "other"]} :
         lastLine' = [kind |-> "swallowed", line |-> nxt]
    /\ match' = [t0 |-> server.time, f0 |-> server.frags, n0 |-> Len(cgames),
                 ended |-> FALSE, valid |-> FALSE, scored |-> 0]
    /\ N' = N + 1
    /\ valid_game' = FALSE
    /\ left' = left - 1
    /\ skip' = "none"
    /\ pc' = "inmatch"
    /\ UNCHANGED <<cgames, R, out, fault, unit>>

\* line 134: an init line that is the last line of the log; next(lines) raises
InitAtEnd ==
    /\ pc = "idle"
    /\ pc' = "fault"
    /\ fault' = "StopIteration"
    /\ lastLine' = [kind |-> "init"]
    /\ skip' = "none"
    /\ UNCHANGED <<server, N, game, valid_game, cgames, left, match, R, out, unit>>

\* the outer loop of mainProcessing runs out of lines
IdleEnd ==
    /\ pc = "idle"
    /\ pc' = "parsed"
    /\ lastLine' = [kind |-> "eof"]
    /\ UNCHANGED <<server, N, game, valid_game, cgames, left, skip, match, R, out,
                   fault, unit>>

\* what every in-match line does to the bound and the history
Read(line) ==
    /\ pc = "inmatch"
    /\ left > 0
    /\ left' = left - 1
    /\ lastLine' = line
    /\ skip' = SkipAfter(line, "inmatch")
    /\ match' = match

\* oneGameProc, lines 177-181 and the lines no branch matches
PlainLine ==
    \E k \in PlainKinds :
        /\ Read([kind |-> k])
        /\ UNCHANGED <<pc, server, N, game, valid_game, cgames, R, out, fault, unit>>

KillLine ==
    \E line \in KillLines :
        /\ Read(line)
        /\ LET r == lineProcKills(line, game, server)
           IN  game' = r.game /\ server' = r.server
        /\ UNCHANGED <<pc, N, valid_game, cgames, R, out, fault, unit>>

CtfLine ==
    \E line \in CtfLines :
        /\ Read(line)
        /\ game' = lineProcCTF(line, game)
        /\ UNCHANGED <<pc, server, N, valid_game, cgames, R, out, fault, unit>>

AwardLine ==
    \E line \in AwardLines :
        /\ Read(line)
        /\ game' = lineProcAwards(line, game)
        /\ UNCHANGED <<pc, server, N, valid_game, cgames, R, out, fault, unit>>

UserInfoLine ==
    \E line \in UserInfoLines :
        /\ Read(line)
        /\ game' = lineProcUserInfo(line, game)
        /\ UNCHANGED <<pc, server, N, valid_game, cgames, R, out, fault, unit>>

SayLine ==
    \E line \in SayLines :
        /\ Read(line)
        /\ game' = lineProcQuotes(line, game)
        /\ UNCHANGED <<pc, server, N, valid_game, cgames, R, out, fault, unit>>

ScoreLine ==
    \E line \in ScoreLines :
        /\ Read(line)
        /\ LET r == lineProcScores(line, game)
           IN  /\ game' = r.game
               /\ pc' = IF r.ok THEN pc ELSE "fault"
               /\ fault' = IF r.ok THEN fault ELSE "KeyError"
        /\ UNCHANGED <<server, N, valid_game, cgames, R, out, unit>>

\* a variant of ExitLine that ends the match as a shutdown line does
ExitLineLeaves ==
    \E line \in ExitLines :
        /\ Read(line)
        /\ LET g == [game EXCEPT !.time = totime(line.stamp)]
           IN  /\ server' = ServerAfter(server, g, TRUE)
               /\ cgames' = GamesAfter(cgames, g, TRUE)
        /\ game' = NoGame
        /\ valid_game' = FALSE
        /\ pc' = "idle"
        /\ UNCHANGED <<N, R, out, fault, unit>>

\* line 195
RedLine ==
    \E line \in RedLines :
        /\ Read(line)
        /\ game' = [game EXCEPT !.ctfscores = <<line.red, line.blue>>]
        /\ UNCHANGED <<pc, server, N, valid_game, cgames, R, out, fault, unit>>

\* lines 196-202: a limit was hit; the loop goes on
ExitLine ==
    \E line \in ExitLines :
        /\ Read(line)
        /\ game' = [game EXCEPT !.time = totime(line.stamp)]
        /\ valid_game' = TRUE
        /\ UNCHANGED <<pc, server, N, cgames, R, out, fault, unit>>

\* lines 203-204, then lines 140-147 of mainProcessing
ShutdownLine ==
    /\ pc = "inmatch"
    /\ lastLine' = [kind |-> "shutdown"]
    /\ skip' = SkipAfter([kind |-> "shutdown"], "inmatch")
    /\ server' = ServerAfter(server, game, valid_game)
    /\ cgames' = GamesAfter(cgames, game, valid_game)
    /\ game' = NoGame
    /\ valid_game' = FALSE
    /\ pc' = "idle"
    /\ match' = [match EXCEPT !.ended = TRUE, !.valid = valid_game,
                              !.scored = Len(game.scores)]
    /\ UNCHANGED <<N, left, R, out, fault, unit>>

\* the log ends inside a match: oneGameProc's loop ends, lines 140-147 run,
\* and the outer loop ends too
MatchEnd ==
    /\ pc = "inmatch"
    /\ lastLine' = [kind |-> "eof"]
    /\ server' = ServerAfter(server, game, valid_game)
    /\ cgames' = GamesAfter(cgames, game, valid_game)
    /\ game' = NoGame
    /\ valid_game' = FALSE
    /\ pc' = "parsed"
    /\ match' = [match EXCEPT !.ended = TRUE, !.valid = valid_game,
                              !.scored = Len(game.scores)]
    /\ UNCHANGED <<N, left, skip, R, out, fault, unit>>

----------------------------------------------------------------------------
(* allnames, player_stats, csum, player_stats_total *)

allnames(games) == UNION {Range(games[i].validp) : i \in 1..Len(games)}

\* int() of a one-digit string
DigitInt(c) ==
    CASE c = "0" -> 0 [] c = "1" -> 1 [] c = "2" -> 2 [] c = "3" -> 3
      [] c = "4" -> 4 [] c = "5" -> 5 [] c = "6" -> 6 [] c = "7" -> 7
      [] c = "8" -> 8 [] c = "9" -> 9

\* t[idx] of a Python tuple: negative indices count from the end,
\* ok = FALSE is IndexError
PyIndex(t, idx) ==
    IF idx >= 0 /\ idx < Len(t) THEN [ok |-> TRUE, v |-> t[idx + 1]]
    ELSE IF idx < 0 /\ idx >= -Len(t) THEN [ok |-> TRUE, v |-> t[Len(t) + idx + 1]]
    ELSE [ok |-> FALSE, v |-> 0]

\* lines 464-478; ok = FALSE: game.ctfscores was never set (AttributeError)
WinOf(g, name) ==
    IF g.gametype # "4" /\ g.gametype # "3"
    THEN [ok |-> TRUE, win |-> IF g.players[name][2] = 1 THEN 1 ELSE 0]
    ELSE IF g.ctfscores = <<>>
    THEN [ok |-> FALSE, win |-> 0]
    ELSE LET mine == PyIndex(g.ctfscores, DigitInt(g.teams[name]) - 1)
         IN  [ok |-> TRUE,
              win |-> IF mine.ok /\ mine.v = MaxOf(Range(g.ctfscores))
                      THEN 1 ELSE 0]

\* lines 489-495: one entry per name of wlist, looked up by its 3-letter code
WeaponCount(g, name) ==
    [k \in 1..Len(wlist) |-> g.weapons[name][Prefix3(wlist[k])]]

\* line 486: sum(game.weapons[player_name].values())
FragsOf(g, name) == SumOver(g.weapons[name], DOMAIN g.weapons[name])

player_stats(games, i, name) ==
    LET g == games[i]
        w == WinOf(g, name)
    IN  [ok |-> w.ok,
         win |-> w.win,
         time |-> g.time - g.ptime[name],
         hand |-> g.handicap[name],
         ping |-> g.players[name][1],
         frags |-> FragsOf(g, name),
         deaths |-> g.deathsp[name],
         suics |-> Len(g.killsp[name]),
         wfrags |-> CountIn(g.killsp[WORLD], name),
         awards |-> <<g.awards[name]["A"], g.awards[name]["C"],
                      g.awards[name]["D"], g.awards[name]["E"],
                      g.awards[name]["I"]>>,
         weapon_count |-> WeaponCount(g, name),
         ctf_events |-> IF g.gametype = "4"
                        THEN <<g.ctf[name]["0"], g.ctf[name]["2"], g.ctf[name]["3"]>>
                        ELSE <<0, 0, 0>>]

\* column-wise addition of a list of equally long rows
csum(A) == [j \in 1..Len(A[1]) |-> SumSeq([i \in 1..Len(A) |-> A[i][j]])]

\* a variant of CountsFor that takes every match the name scored in
CountsForPresent(games, i, name) == name \in DOMAIN games[i].players

\* line 412: the matches of the list that count for a name
CountsFor(games, i, name) == name \in Range(games[i].validp)

\* the per-game statistics of one name, in game order (the loop of line 411)
RECURSIVE StatsRows(_, _, _)
StatsRows(games, i, name) ==
    IF i > Len(games) THEN <<>>
    ELSE IF CountsFor(games, i, name)
    THEN <<player_stats(games, i, name)>> \o StatsRows(games, i + 1, name)
    ELSE StatsRows(games, i + 1, name)

Column(rows, f) == [k \in 1..Len(rows) |-> rows[k][f]]

\* lines 436-446; a quotient is kept as <<numerator, denominator>>
OnePlayer(name, rows) ==
    [name |-> name,
     games |-> Len(rows),
     won |-> SumSeq(Column(rows, "win")),
     time |-> SumSeq(Column(rows, "time")),
     hand |-> <<SumSeq(Column(rows, "hand")), Len(rows)>>,
     ping |-> <<MinOf(Range(Column(rows, "ping"))),
                <<SumSeq(Column(rows, "ping")), Len(rows)>>,
                MaxOf(Range(Column(rows, "ping")))>>,
     frags |-> SumSeq(Column(rows, "frags")),
     deaths |-> SumSeq(Column(rows, "deaths")),
     suics |-> SumSeq(Column(rows, "suics")),
     wfrags |-> SumSeq(Column(rows, "wfrags")),
     excellent |-> SumSeq([k \in 1..Len(rows) |-> rows[k].awards[4]]),
     impressive |-> SumSeq([k \in 1..Len(rows) |-> rows[k].awards[5]]),
     defence |-> SumSeq([k \in 1..Len(rows) |-> rows[k].awards[3]]),
     capture |-> SumSeq([k \in 1..Len(rows) |-> rows[k].awards[2]]),
     assist |-> SumSeq([k \in 1..Len(rows) |-> rows[k].awards[1]]),
     weapons |-> csum(Column(rows, "weapon_count")),
     ctf |-> csum(Column(rows, "ctf_events"))]

\* the names in the order the set allnames(cgames) is iterated: any order
Orders(S) == {o \in [1..Cardinality(S) -> S] : Range(o) = S}

\* ok = FALSE: a player_stats call raised
RECURSIVE player_stats_total(_, _)
player_stats_total(games, order) ==
    IF order = <<>> THEN [ok |-> TRUE, list |-> <<>>]
    ELSE LET rows == StatsRows(games, 1, Head(order))
             rest == player_stats_total(games, Tail(order))
         IN  IF \E k \in 1..Len(rows) : ~rows[k].ok
             THEN [ok |-> FALSE, list |-> <<>>]
             ELSE IF SumSeq(Column(rows, "frags")) = 0
             THEN rest
             ELSE [ok |-> rest.ok,
                   list |-> <<OnePlayer(Head(order), rows)>> \o rest.list]

----------------------------------------------------------------------------
(* results_ordered *)

\* A number handed to results_ordered as maxnumber is [isnum |-> TRUE, v |-> n];
\* a string that int() rejects is [isnum |-> FALSE, v |-> 0].
Num(n) == [isnum |-> TRUE, v |-> n]
NotANumber == [isnum |-> FALSE, v |-> 0]

is_number(s) == s.isnum

\* the keys of a career entry that hold one number
NumericKeys == {"games", "won", "time", "frags", "deaths", "suics", "wfrags",
                "excellent", "impressive", "defence", "capture", "assist"}

RatioOptions == {"frag_death_ratio", "won_percentage", "frags_per_hour", "name"}

\* the sort key of an entry as <<numerator, denominator>>
SortKey(e, option) ==
    CASE option \in {"frag_death_ratio", "name"} -> <<e.frags, e.deaths>>
      [] option = "won_percentage" -> <<e.won, e.games>>
      [] option = "frags_per_hour" -> <<e.frags, e.time>>
      [] option = "hand" -> e.hand
      [] OTHER -> <<e[option], 1>>

\* float(a) / b raises ZeroDivisionError
KeyRaises(e, option) == SortKey(e, option)[2] = 0

RatLess(p, q) ==
    LET pn == IF p[2] < 0 THEN -p[1] ELSE p[1]
        pd == IF p[2] < 0 THEN -p[2] ELSE p[2]
        qn == IF q[2] < 0 THEN -q[1] ELSE q[1]
        qd == IF q[2] < 0 THEN -q[2] ELSE q[2]
    IN  pn * qd < qn * pd

\* x goes in front of the first entry it strictly precedes: a stable sort
RECURSIVE InsertByKey(_, _, _, _)
InsertByKey(x, s, option, reverse) ==
    IF s = <<>> THEN <<x>>
    ELSE LET before == IF reverse
                       THEN RatLess(SortKey(Head(s), option), SortKey(x, option))
                       ELSE RatLess(SortKey(x, option), SortKey(Head(s), option))
         IN  IF before THEN <<x>> \o s
             ELSE <<Head(s)>> \o InsertByKey(x, Tail(s), option, reverse)

RECURSIVE SortedFrom(_, _, _, _)
SortedFrom(done, todo, option, reverse) ==
    IF todo = <<>> THEN done
    ELSE SortedFrom(InsertByKey(Head(todo), done, option, reverse), Tail(todo),
                    option, reverse)

sorted(Rl, option, reverse) == SortedFrom(<<>>, Rl, option, reverse)

\* Rordered[0:maxnumber] for maxnumber >= 0
Slice(s, n) == SubSeq(s, 1, IF n < Len(s) THEN n ELSE Len(s))

\* a variant of MaxnumberRefused that lets a count of zero through
MaxnumberRefusedNegative(maxnumber, n) == ~(maxnumber > n) /\ maxnumber < 0

\* lines 522-527: the result count is refused
MaxnumberRefused(maxnumber, n) == ~(maxnumber > n) /\ maxnumber <= 0

\* kind: "list" (a ranked list is returned), "none" (the function printed a
\* message and returned None), "fault" (an exception left the function)
results_ordered(Rl, option, maxnumber) ==
    IF ~is_number(maxnumber) THEN [kind |-> "none", list |-> <<>>, err |-> ""]
    ELSE IF MaxnumberRefused(maxnumber.v, Len(Rl))
    THEN [kind |-> "none", list |-> <<>>, err |-> ""]
    ELSE LET n == IF maxnumber.v > Len(Rl) THEN Len(Rl) ELSE maxnumber.v
         IN  IF option \in RatioOptions
             THEN IF \E k \in 1..Len(Rl) : KeyRaises(Rl[k], option)
                  THEN [kind |-> "fault", list |-> <<>>, err |-> "ZeroDivisionError"]
                  ELSE [kind |-> "list",
                        list |-> Slice(sorted(Rl, option, option # "name"), n),
                        err |-> ""]
             ELSE IF Rl = <<>>
             THEN [kind |-> "fault", list |-> <<>>, err |-> "IndexError"]
             ELSE IF option \in DOMAIN Rl[1]
             THEN [kind |-> "list", list |-> Slice(sorted(Rl, option, TRUE), n),
                   err |-> ""]
             ELSE [kind |-> "none", list |-> <<>>, err |-> ""]

----------------------------------------------------------------------------
(* set_gametype *)

GametypeName(n) ==
    CASE n = 0 -> "Death Match" [] n = 1 -> "1 vs 1"
      [] n = 2 -> "Single Death Match" [] n = 3 -> "Team Death Match"
      [] n = 4 -> "Capture the Flag" [] n = 5 -> "One-Flag CTF"
      [] n = 6 -> "Overload" [] n = 7 -> "Harvester" [] n = 8 -> "Elimination"
      [] n = 9 -> "CTF Elimination" [] n = 10 -> "Last Man Standing"
      [] n = 11 -> "Double Elimination" [] n = 12 -> "Domination"

\* GTYPE_OVERRIDE is '': the first branch is taken
set_gametype(srv) == [srv EXCEPT !.gtype = GametypeName(@)]

----------------------------------------------------------------------------
(* apply_ban *)

\* R_names.index(name), counted from 0
IndexOf(names, name) == MinOf({k \in 1..Len(names) : names[k] = name}) - 1

\* lines 581-583, in the order of the ban list
RECURSIVE BanIndexes(_, _)
BanIndexes(names, bans) ==
    IF bans = <<>> THEN <<>>
    ELSE IF Head(bans) \in Range(names)
    THEN <<IndexOf(names, Head(bans))>> \o BanIndexes(names, Tail(bans))
    ELSE BanIndexes(names, Tail(bans))

\* sorted(ban_list_index, reverse=True)
RECURSIVE SortedDown(_)
SortedDown(s) ==
    IF s = <<>> THEN <<>>
    ELSE LET m == MaxOf(Range(s))
             k == MinOf({i \in 1..Len(s) : s[i] = m})
         IN  <<m>> \o SortedDown(SubSeq(s, 1, k - 1) \o SubSeq(s, k + 1, Len(s)))

\* lines 584-585: del(R[i]) for each index; ok = FALSE is IndexError
RECURSIVE DeleteAll(_, _)
DeleteAll(Rl, idxs) ==
    IF idxs = <<>> THEN [ok |-> TRUE, list |-> Rl]
    ELSE IF Head(idxs) >= Len(Rl) THEN [ok |-> FALSE, list |-> Rl]
    ELSE DeleteAll(SubSeq(Rl, 1, Head(idxs)) \o SubSeq(Rl, Head(idxs) + 2, Len(Rl)),
                   Tail(idxs))

apply_ban(Rl, bans) ==
    DeleteAll(Rl, SortedDown(BanIndexes([k \in 1..Len(Rl) |-> Rl[k].name], bans)))

----------------------------------------------------------------------------
(* name_colour and the tables *)

\* no nick of the alphabet holds a colour code ^0..^7, so none is rewritten
name_colour(nick) == nick

make_main_table(Rl) ==
    [k \in 1..Len(Rl) |->
        <<Rl[k].name, Rl[k].games, Rl[k].won, Rl[k].time, Rl[k].hand,
          Rl[k].ping[1], Rl[k].ping[2], Rl[k].ping[3], Rl[k].frags,
          Rl[k].deaths, Rl[k].suics, Rl[k].wfrags, Rl[k].excellent,
          Rl[k].impressive>>]

\* the divisions of lines 654-662 that can raise ZeroDivisionError
StatsRaises(e) == e.games = 0 \/ e.time = 0

\* each quotient as <<numerator, denominator>>, before rounding
make_stats_table(Rl) ==
    [k \in 1..Len(Rl) |->
        LET e == Rl[k]
        IN  <<e.name, <<100 * e.won, e.games>>, <<e.frags, 1 + e.deaths>>,
              <<3600 * e.frags, e.time>>, <<e.frags, e.games>>,
              <<3600 * e.deaths, e.time>>, <<e.deaths, e.games>>,
              <<3600 * (e.suics + e.wfrags), e.time>>,
              <<e.suics + e.wfrags, e.games>>,
              <<100 * e.frags, 1 + e.frags + e.deaths>>>>]

\* lines 631-639: the columns of one player's row before the percentages
WeaponColumns(w) ==
    <<w[1], w[2], w[3], w[4] + w[5], w[6] + w[7], w[8] + w[9], w[10], w[11],
      w[15], w[16], w[12] + w[13], w[14]>>

\* line 643
WeaponsRaises(e) == e.frags = 0

make_weapons_table(Rl) ==
    [k \in 1..Len(Rl) |->
        <<Rl[k].name>> \o
        [j \in 1..12 |-> <<100 * WeaponColumns(Rl[k].weapons)[j], Rl[k].frags>>]]

----------------------------------------------------------------------------
(* logToData after mainProcessing *)

\* get_quotes: the distinct quotes of the retained matches
get_quotes(games) == UNION {games[i].quotes : i \in 1..Len(games)}

\* make_quotes_table: NUMBER_OF_QUOTES draws with replacement
QuoteSamples(quotes_list) ==
    IF quotes_list = {} THEN {<<>>}
    ELSE {[k \in 1..NUMBER_OF_QUOTES |-> <<name_colour(f[k][1]), f[k][2]>>] :
            f \in [1..NUMBER_OF_QUOTES -> quotes_list]}

\* a variant of NoGames that goes on to an empty report
NoGamesReported ==
    /\ pc = "parsed"
    /\ Len(cgames) = 0
    /\ pc' = "done"
    /\ out' = [main |-> <<>>, stats |-> <<>>, weapons |-> <<>>, quotes |-> <<>>]
    /\ UNCHANGED <<server, N, game, valid_game, cgames, left, lastLine, skip,
                   match, R, fault, unit>>

\* lines 706-726 for the list player_stats_total returned
Report(Rl, srv) ==
    LET ro == results_ordered(Rl, SORT_OPTION, Num(MAXPLAYERS))
        b == apply_ban(ro.list, BAN_LIST)
        Rc == [k \in 1..Len(b.list) |-> [b.list[k] EXCEPT !.name = name_colour(@)]]
        named == set_gametype(srv)
    IN  IF ro.kind = "fault" THEN [ok |-> FALSE, err |-> ro.err]
        ELSE IF ro.kind = "none" THEN [ok |-> FALSE, err |-> "TypeError"]
        ELSE IF ~b.ok THEN [ok |-> FALSE, err |-> "IndexError"]
        ELSE IF \E k \in 1..Len(Rc) : StatsRaises(Rc[k]) \/ WeaponsRaises(Rc[k])
        THEN [ok |-> FALSE, err |-> "ZeroDivisionError"]
        ELSE [ok |-> TRUE, err |-> "", R |-> Rc, server |-> named,
              data |-> [server |-> [hostname |-> named.hostname,
                                    gtype |-> named.gtype,
                                    time |-> named.time,
                                    frags |-> named.frags],
                        main |-> make_main_table(Rc),
                        stats |-> make_stats_table(Rc),
                        weapons |-> make_weapons_table(Rc)]]

\* lines 700-704: no retained match, the run ends with SystemExit
NoGames ==
    /\ pc = "parsed"
    /\ Len(cgames) = 0
    /\ pc' = "abort"
    /\ fault' = "SystemExit"
    /\ UNCHANGED <<server, N, game, valid_game, cgames, left, lastLine, skip,
                   match, R, out, unit>>

\* line 701
Aggregate ==
    /\ pc = "parsed"
    /\ Len(cgames) # 0
    /\ \E order \in Orders(allnames(cgames)) :
         LET r == player_stats_total(cgames, order)
         IN  /\ R' = r.list
             /\ pc' = IF r.ok THEN "aggregated" ELSE "fault"
             /\ fault' = IF r.ok THEN fault ELSE "AttributeError"
    /\ UNCHANGED <<server, N, game, valid_game, cgames, left, lastLine, skip,
                   match, out, unit>>

\* lines 706-726
Finish ==
    /\ pc = "aggregated"
    /\ LET r == Report(R, server)
       IN  IF r.ok
           THEN /\ \E sample \in QuoteSamples(get_quotes(cgames)) :
                     out' = r.data @@ [quotes |-> sample]
                /\ R' = r.R
                /\ server' = r.server
                /\ pc' = "done"
                /\ fault' = fault
           ELSE /\ pc' = "fault"
                /\ fault' = r.err
                /\ UNCHANGED <<R, out, server>>
    /\ UNCHANGED <<N, game, valid_game, cgames, left, lastLine, skip, match, unit>>

Next ==
    \/ IdleLine \/ InitWarmup \/ InitGame \/ InitAtEnd \/ IdleEnd
    \/ PlainLine \/ KillLine \/ CtfLine \/ AwardLine \/ UserInfoLine
    \/ SayLine \/ ScoreLine \/ RedLine \/ ExitLine \/ ShutdownLine \/ MatchEnd
    \/ NoGames \/ Aggregate \/ Finish

Spec == Init /\ [][Next]_vars

----------------------------------------------------------------------------
(* Functions applied on their own: the arguments are drawn by the initial  *)
(* state, one step applies the function to them.                           *)

\* the variables of the run, untouched while a function is applied on its own
RunIdle ==
    /\ server = NewServer
    /\ N = 1
    /\ game = NoGame
    /\ valid_game = FALSE
    /\ cgames = <<>>
    /\ left = 0
    /\ lastLine = NoLine
    /\ skip = "none"
    /\ match = NoMatch
    /\ R = <<>>
    /\ out = <<>>
    /\ fault = ""

RunVars == <<server, N, game, valid_game, cgames, left, lastLine, skip, match, R,
            out, fault>>

SeqsUpTo(S, n) == UNION {[1..k -> S] : k \in 0..n}

DistinctSeqs(S) ==
    {q \in SeqsUpTo(S, Cardinality(S)) : \A i, j \in 1..Len(q) : q[i] = q[j] => i = j}

(* apply_ban on ranked lists with distinct names *)

BanNames == {"A", "B", "C", "D"}

InitBan ==
    /\ RunIdle
    /\ pc = "call"
    /\ unit \in [fn : {"apply_ban"},
                 R : {[k \in 1..Len(q) |-> [name |-> q[k]]] : q \in DistinctSeqs(BanNames)},
                 bans : SeqsUpTo(BanNames, MaxBans),
                 ret : {[ok |-> TRUE, list |-> <<>>]}]

ApplyBan ==
    /\ pc = "call"
    /\ unit.fn = "apply_ban"
    /\ unit' = [unit EXCEPT !.ret = apply_ban(unit.R, unit.bans)]
    /\ pc' = "returned"
    /\ UNCHANGED RunVars

NextBan == ApplyBan

SpecBan == InitBan /\ [][NextBan]_vars

(* results_ordered and the ratio tables on aggregated sets *)

RankNames == {"A", "B"}

\* a career entry as player_stats_total builds it for a player whose frags
\* were all made with the shotgun, with ping 40 and no handicap
CareerEntry(name, games, won, time, frags, deaths) ==
    [name |-> name, games |-> games, won |-> won, time |-> time,
     hand |-> <<100 * games, games>>,
     ping |-> <<40, <<40 * games, games>>, 40>>,
     frags |-> frags, deaths |-> deaths, suics |-> 0, wfrags |-> 0,
     excellent |-> 0, impressive |-> 0, defence |-> 0, capture |-> 0,
     assist |-> 0,
     weapons |-> [k \in 1..Len(wlist) |-> IF k = 1 THEN frags ELSE 0],
     ctf |-> <<0, 0, 0>>]

CareerEntries(name) ==
    {CareerEntry(name, gw[1], gw[2], t, f, d) :
        gw \in {<<1, 0>>, <<1, 1>>, <<2, 1>>}, t \in 1..2,
        f \in 1..MaxFrags, d \in 0..MaxDeaths}

AggregatedSets ==
    UNION {{q \in [1..Len(names) -> UNION {CareerEntries(n) : n \in RankNames}] :
                \A k \in 1..Len(names) : q[k].name = names[k]} :
            names \in DistinctSeqs(RankNames)}

RankOptions == {"frag_death_ratio", "won_percentage", "frags_per_hour", "name",
                "time", "frags", "bogus"}

RankCounts == {NotANumber} \cup {Num(n) : n \in -1..3}

InitRank ==
    /\ RunIdle
    /\ pc = "call"
    /\ unit \in [fn : {"results_ordered"}, R : AggregatedSets,
                 option : RankOptions, maxnumber : RankCounts,
                 ret : {[kind |-> "pending", list |-> <<>>, err |-> ""]},
                 tables : {"pending"}]

RankCall ==
    /\ pc = "call"
    /\ unit.fn = "results_ordered"
    /\ unit' = [unit EXCEPT !.ret = results_ordered(unit.R, unit.option, unit.maxnumber)]
    /\ pc' = "returned"
    /\ UNCHANGED RunVars

\* make_stats_table and make_weapons_table on the list results_ordered returned
TablesCall ==
    /\ pc = "returned"
    /\ unit.fn = "results_ordered"
    /\ unit.ret.kind = "list"
    /\ unit' = [unit EXCEPT !.tables =
                  IF \E k \in 1..Len(unit.ret.list) :
                        StatsRaises(unit.ret.list[k]) \/ WeaponsRaises(unit.ret.list[k])
                  THEN "ZeroDivisionError"
                  ELSE "made"]
    /\ pc' = "tabled"
    /\ UNCHANGED RunVars

NextRank == RankCall \/ TablesCall

SpecRank == InitRank /\ [][NextRank]_vars

(* player_stats_total on match histories.  A history is what mainProcessing *)
(* retains of a log of at most two matches; every match of the log joins    *)
(* the two players, holds some kill lines, reaches its time limit and       *)
(* prints the scores of some players.                                       *)

\* oneGameProc's dispatch of one line to its rule
Dispatch(line, g, srv) ==
    CASE line.kind = "kill" -> lineProcKills(line, g, srv)
      [] line.kind = "userinfo" -> [game |-> lineProcUserInfo(line, g), server |-> srv]
      [] line.kind = "score" -> [game |-> lineProcScores(line, g).game, server |-> srv]
      [] line.kind = "exit" -> [game |-> [g EXCEPT !.time = totime(line.stamp)],
                                server |-> srv]
      [] line.kind = "red" -> [game |-> [g EXCEPT !.ctfscores = <<line.red, line.blue>>],
                               server |-> srv]
      [] line.kind = "ctf" -> [game |-> lineProcCTF(line, g), server |-> srv]

\* oneGameProc over the lines of a match in which every scorer has joined
RECURSIVE oneGameProc(_, _, _, _)
oneGameProc(lines, g, srv, valid) ==
    IF lines = <<>> THEN [game |-> g, server |-> srv, valid_game |-> valid]
    ELSE LET r == Dispatch(Head(lines), g, srv)
         IN  oneGameProc(Tail(lines), r.game, r.server,
                         valid \/ Head(lines).kind = "exit")

JoinLine(id, name, secs) ==
    [kind |-> "userinfo", id |-> id, name |-> name, hc |-> "absent", team |-> "1",
     stamp |-> <<0, secs>>]

ScorerLists == {<<>>, <<"Foo">>, <<"UnnamedPlayer">>, <<"Foo", "UnnamedPlayer">>,
                <<"UnnamedPlayer", "Foo">>}

\* the kill lines of these logs: every kind of kill, one of them by rocket
HistoryKills ==
    {l \in KillLines :
        l.weapon = "SHOTGUN" \/ (l.killer = "Foo" /\ l.victim = "UnnamedPlayer")}

MatchLogs(kills) ==
    {<<JoinLine("0", "Foo", j[1]), JoinLine("1", "UnnamedPlayer", j[2])>>
        \o k \o <<[kind |-> "exit", stamp |-> <<0, 2>>]>>
        \o [i \in 1..Len(sc) |-> [kind |-> "score", nick |-> sc[i], ping |-> 40]] :
        j \in {<<0, 0>>, <<0, 1>>, <<1, 0>>}, k \in [1..kills -> HistoryKills], sc \in ScorerLists}

\* mainProcessing over the log of two matches
HistoryOf(log1, log2) ==
    LET init == [kind |-> "init", mapname |-> "q3dm6", hostname |-> "MyServer",
                 gametype |-> "0"]
        s1 == lineProcInit(init, NewGame(1), NewServer)
        m1 == oneGameProc(log1, s1.game, s1.server, FALSE)
        s2 == lineProcInit(init, NewGame(2), ServerAfter(m1.server, m1.game, m1.valid_game))
        m2 == oneGameProc(log2, s2.game, s2.server, FALSE)
    IN  GamesAfter(GamesAfter(<<>>, m1.game, m1.valid_game), m2.game, m2.valid_game)

InitAgg ==
    /\ RunIdle
    /\ pc = "call"
    /\ \E k \in {kk \in (0..MaxKills) \X (0..MaxKills) : kk[1] + kk[2] <= MaxKills} :
         \E l1 \in MatchLogs(k[1]), l2 \in MatchLogs(k[2]) :
            unit = [fn |-> "player_stats_total",
                    cgames |-> HistoryOf(l1, l2),
                    ret |-> [ok |-> TRUE, list |-> <<>>]]

AggCall ==
    /\ pc = "call"
    /\ unit.fn = "player_stats_total"
    /\ \E order \in Orders(allnames(unit.cgames)) :
         unit' = [unit EXCEPT !.ret = player_stats_total(unit.cgames, order)]
    /\ pc' = "returned"
    /\ UNCHANGED RunVars

NextAgg == AggCall

SpecAgg == InitAgg /\ [][NextAgg]_vars

(* player_stats on one retained match in which Foo is valid: every gametype *)
(* family, every team id a UserinfoChanged line can carry, both scoreboard  *)
(* ranks, and the team scores a 'red:' line can record, or none             *)

WinGametypes == {"0", "3", "4"}

WinTeams == {"0", "1", "2", "3"}

WinScores == {<<0, 1>>, <<1, 0>>, <<1, 1>>}

WinLogs ==
    {<<[kind |-> "userinfo", id |-> "0", name |-> "Foo", hc |-> "absent",
        team |-> t, stamp |-> <<0, 0>>],
       JoinLine("1", "UnnamedPlayer", 0)>>
        \o red \o <<[kind |-> "exit", stamp |-> <<0, 2>>]>>
        \o [i \in 1..Len(sc) |-> [kind |-> "score", nick |-> sc[i], ping |-> 40]] :
        t \in WinTeams,
        red \in {<<>>} \cup {<<[kind |-> "red", red |-> s[1], blue |-> s[2]]>> :
                                s \in WinScores},
        sc \in {<<"Foo">>, <<"Foo", "UnnamedPlayer">>, <<"UnnamedPlayer", "Foo">>}}

InitWin ==
    /\ RunIdle
    /\ pc = "call"
    /\ \E gt \in WinGametypes, log \in WinLogs :
         LET init == [kind |-> "init", mapname |-> "q3dm6", hostname |-> "MyServer",
                      gametype |-> gt]
             s == lineProcInit(init, NewGame(1), NewServer)
             m == oneGameProc(log, s.game, s.server, FALSE)
         IN  unit = [fn |-> "player_stats",
                     cgames |-> GamesAfter(<<>>, m.game, m.valid_game),
                     name |-> "Foo",
                     ret |-> [ok |-> TRUE, win |-> 0]]

WinCall ==
    /\ pc = "call"
    /\ unit.fn = "player_stats"
    /\ unit' = [unit EXCEPT !.ret = player_stats(unit.cgames, 1, unit.name)]
    /\ pc' = "returned"
    /\ UNCHANGED RunVars

NextWin == WinCall

SpecWin == InitWin /\ [][NextWin]_vars

(* The Game of a second match.  The first match binds one client id and    *)
(* ends with a shutdown line; the second holds UserinfoChanged and CTF       *)
(* lines in any order and ends with its exit line.                            *)

MaxPidLines == 2

PidLines == {l \in UserInfoLines : l.stamp = <<0, 0>>} \cup CtfLines

PidLogs1 == {<<l>> : l \in {u \in UserInfoLines : u.stamp = <<0, 0>>}}

PidLogs2 == {pre \o <<[kind |-> "exit", stamp |-> <<0, 2>>]>> :
                pre \in SeqsUpTo(PidLines, MaxPidLines)}

\* mainProcessing, lines 135-139, for two matches in a row: the Game that
\* oneGameProc returns for the second one
SecondGame(log1, log2) ==
    LET init == [kind |-> "init", mapname |-> "q3dm6", hostname |-> "MyServer",
                 gametype |-> "4"]
        s1 == lineProcInit(init, NewGame(1), NewServer)
        m1 == oneGameProc(log1, s1.game, s1.server, FALSE)
        s2 == lineProcInit(init, NewGame(2), ServerAfter(m1.server, m1.game, m1.valid_game))
    IN  oneGameProc(log2, s2.game, s2.server, FALSE).game

InitPid ==
    /\ RunIdle
    /\ pc = "call"
    /\ unit \in [fn : {"mainProcessing"}, log1 : PidLogs1, log2 : PidLogs2,
                 ret : {NoGame}]

PidCall ==
    /\ pc = "call"
    /\ unit.fn = "mainProcessing"
    /\ unit' = [unit EXCEPT !.ret = SecondGame(unit.log1, unit.log2)]
    /\ pc' = "returned"
    /\ UNCHANGED RunVars

NextPid == PidCall

SpecPid == InitPid /\ [][NextPid]_vars

----------------------------------------------------------------------------
(* Properties *)

\* a step of mainProcessing / oneGameProc that reads a line and goes on reading
ReadsOn == pc \in {"idle", "inmatch"} /\ pc' \in {"idle", "inmatch"}

\* C1: when an init line is immediately followed by a warm-up line, no Game is
\* created for it and every line up to the next init line is ignored: the Game
\* under construction, the match history and the Server totals (hence the
\* career totals) stay what they were before the pair.
C1_WarmupStretchIgnored ==
    [][(ReadsOn /\ skip' # "none")
        => UNCHANGED <<server, N, game, valid_game, cgames>>]_vars

\* C2: a Score line for a registered player appends the player to the valid-
\* player list if and only if (duration - join offset) is strictly greater than
\* MINPLAY * (duration - earliest join offset of the match); at equality the
\* list is left as it was.
C2_ScoreValidity ==
    [][(pc = "inmatch" /\ left' = left - 1 /\ lastLine'.kind = "score"
            /\ lastLine'.nick \in DOMAIN game.ptime)
        => LET nick == lastLine'.nick
               played == game.time - game.ptime[nick]
               longest == CHOOSE d \in {game.time - game.ptime[n] : n \in DOMAIN game.ptime} :
                             \A n \in DOMAIN game.ptime : game.time - game.ptime[n] <= d
           IN  IF MINPLAY_DEN * played > MINPLAY_NUM * longest
               THEN game'.validp = Append(game.validp, nick)
               ELSE game'.validp = game.validp]_vars

\* a Score line was just read for a player whose played time is exactly MINPLAY
\* times the longest played time, and the player is not in the list
C2_Witness ==
    /\ pc = "inmatch"
    /\ lastLine.kind = "score"
    /\ lastLine.nick \in DOMAIN game.ptime
    /\ game.time > 0
    /\ MINPLAY_DEN * (game.time - game.ptime[lastLine.nick])
          = MINPLAY_NUM * (game.time - MinOf(Values(game.ptime)))
    /\ lastLine.nick \notin Range(game.validp)

\* the matches of a history whose valid-player list holds the name
ValidMatches(games, name) == {i \in 1..Len(games) : name \in Range(games[i].validp)}

\* the sum over a set of matches of a per-match number
RECURSIVE TotalOf(_, _)
TotalOf(perMatch, S) ==
    IF S = {} THEN 0
    ELSE LET i == MaxOf(S) IN TotalOf(perMatch, S \ {i}) + perMatch[i]

\* C3: each career total of an aggregated entry (match count, played time,
\* frags, deaths, suicides, world-frags) is the sum over exactly the retained
\* matches whose valid-player list holds the entry's name.
C3_TotalsOverValidMatches ==
    (pc = "returned" /\ unit.fn = "player_stats_total")
    => /\ unit.ret.ok
       /\ \A k \in 1..Len(unit.ret.list) :
            LET e == unit.ret.list[k]
                gs == unit.cgames
                V == ValidMatches(gs, e.name)
            IN  /\ V # {}
                /\ e.games = Cardinality(V)
                /\ e.time = TotalOf([i \in V |-> gs[i].time - gs[i].ptime[e.name]], V)
                /\ e.frags = TotalOf([i \in V |->
                        SumOver(gs[i].weapons[e.name], WeaponCodes)], V)
                /\ e.deaths = TotalOf([i \in V |-> gs[i].deathsp[e.name]], V)
                /\ e.suics = TotalOf([i \in V |-> Len(gs[i].killsp[e.name])], V)
                /\ e.wfrags = TotalOf([i \in V |->
                        Cardinality({j \in 1..Len(gs[i].killsp[WORLD]) :
                                        gs[i].killsp[WORLD][j] = e.name})], V)

\* Foo is valid in match 1, where he has frags, and scored but invalid in
\* match 2, where he has frags too; his entry counts match 1 only
C3_Witness ==
    /\ pc = "returned"
    /\ unit.fn = "player_stats_total"
    /\ Len(unit.cgames) = 2
    /\ "Foo" \in Range(unit.cgames[1].validp)
    /\ "Foo" \notin Range(unit.cgames[2].validp)
    /\ "Foo" \in DOMAIN unit.cgames[2].players
    /\ FragsOf(unit.cgames[1], "Foo") > 0
    /\ FragsOf(unit.cgames[2], "Foo") > 0
    /\ \E k \in 1..Len(unit.ret.list) :
          /\ unit.ret.list[k].name = "Foo"
          /\ unit.ret.list[k].games = 1
          /\ unit.ret.list[k].frags = FragsOf(unit.cgames[1], "Foo")

\* C4: in every aggregated entry the components of the per-weapon total vector
\* add up to the entry's total frags.
C4_WeaponSumIsFrags ==
    (pc = "returned" /\ unit.fn = "player_stats_total")
    => \A k \in 1..Len(unit.ret.list) :
          SumSeq(unit.ret.list[k].weapons) = unit.ret.list[k].frags

\* C5: apply_ban returns exactly the entries whose name is not in the ban list,
\* in their original order, for every ban list, repeats allowed.
C5_BanIsFilter ==
    (pc = "returned" /\ unit.fn = "apply_ban")
    => LET Kept(e) == e.name \notin Range(unit.bans)
       IN  unit.ret.ok /\ unit.ret.list = SelectSeq(unit.R, Kept)

\* the run has ended: a report, SystemExit, or an exception
Ended == pc \in {"done", "abort", "fault"}

\* C6: when the log holds a complete match (init, limit-reached exit) in which
\* a Score line classified a player valid, and the log is read to its end, the
\* run completes and the ranked output holds at least one entry.
C6_ValidScorerIsRanked ==
    (Ended /\ fault \notin {"StopIteration", "KeyError"}
        /\ \E i \in 1..Len(cgames) : cgames[i].validp # <<>>)
    => (pc = "done" /\ Len(R) >= 1)

\* C7: a match that reached a limit-reached exit line and processed no Score
\* line is not appended to the match history, and Server cumulative time and
\* frags are what they were before its init line.
C7_ScorelessMatchLeavesNoTrace ==
    (match.ended /\ match.valid /\ match.scored = 0 /\ pc \in {"idle", "parsed"})
    => /\ Len(cgames) = match.n0
       /\ server.time = match.t0
       /\ server.frags = match.f0

\* C8: a match that ended (shutdown line or end of input) without a
\* limit-reached exit line is not appended to the match history and changes
\* neither Server cumulative time nor Server cumulative frags.
C8_UnfinishedMatchLeavesNoTrace ==
    (match.ended /\ ~match.valid /\ pc \in {"idle", "parsed"})
    => /\ Len(cgames) = match.n0
       /\ server.time = match.t0
       /\ server.frags = match.f0

RankReturned == pc \in {"returned", "tabled"} /\ unit.fn = "results_ordered"

\* C9 (as stated): results_ordered returns no ranked list when the result count
\* is not a positive integer or exceeds the number of aggregated entries.
C9_BadCountFails ==
    (RankReturned
        /\ (~unit.maxnumber.isnum \/ unit.maxnumber.v <= 0
            \/ unit.maxnumber.v > Len(unit.R)))
    => unit.ret.kind # "list"

\* C9 (amended): results_ordered returns no ranked list when the result count
\* is not a number or is an integer <= 0.  A count that exceeds the number of
\* aggregated entries is not refused: it is replaced by the number of entries,
\* a literal numeric key then ranks a non-empty set, and every list returned
\* holds all the entries.
C9_CountRefusedOrClamped ==
    RankReturned
    => /\ (~unit.maxnumber.isnum \/ unit.maxnumber.v <= 0) => unit.ret.kind = "none"
       /\ (unit.maxnumber.isnum /\ unit.maxnumber.v > Len(unit.R))
            => /\ unit.ret.kind # "none" \/ unit.option = "bogus"
               /\ (unit.option \in NumericKeys /\ unit.R # <<>>)
                    => unit.ret.kind = "list"
               /\ unit.ret.kind = "list"
                    => /\ Len(unit.ret.list) = Len(unit.R)
                       /\ Range(unit.ret.list) = Range(unit.R)

\* a count of 3 for two entries: both are returned, ranked
C9_Witness ==
    /\ RankReturned
    /\ unit.maxnumber.isnum
    /\ unit.maxnumber.v > Len(unit.R)
    /\ Len(unit.R) = 2
    /\ unit.ret.kind = "list"
    /\ Len(unit.ret.list) = 2
    /\ unit.ret.list # unit.R

\* C10: ranking by the frag/death, win/games, frags/hour or name key and
\* deriving the ratio and weapon-percentage tables never ends in a division
\* by zero, entries with zero deaths included.
C10_NoDivisionFault ==
    RankReturned
    => /\ unit.ret.err # "ZeroDivisionError"
       /\ unit.tables # "ZeroDivisionError"

\* C11: ranking with the frag/death-ratio key and a count N between 1 and the
\* number of entries returns N entries of the aggregated set, ordered by
\* non-increasing frags/deaths, none of them twice, none from outside the set.
C11_RankedByFragDeathRatio ==
    (RankReturned /\ unit.option = "frag_death_ratio" /\ unit.maxnumber.isnum
        /\ unit.maxnumber.v >= 1 /\ unit.maxnumber.v <= Len(unit.R))
    => /\ unit.ret.kind = "list"
       /\ Len(unit.ret.list) = unit.maxnumber.v
       /\ Range(unit.ret.list) \subseteq Range(unit.R)
       /\ \A i, j \in 1..Len(unit.ret.list) :
            i < j => /\ unit.ret.list[i] # unit.ret.list[j]
                     /\ unit.ret.list[i].frags * unit.ret.list[j].deaths
                          >= unit.ret.list[j].frags * unit.ret.list[i].deaths

\* C12: when the end of the input is reached with no retained match, the run
\* ends with SystemExit, builds no ranked list and no report, and does nothing
\* after that.
C12_NoGamesAborts ==
    [][/\ (pc = "parsed" /\ cgames = <<>>)
            => (pc' = "abort" /\ fault' = "SystemExit" /\ R' = <<>> /\ out' = <<>>)
       /\ pc # "abort"]_vars

\* a match was read and dropped, the input ended, and the run ended with
\* SystemExit without a report
C12_Witness ==
    /\ pc = "abort"
    /\ fault = "SystemExit"
    /\ match.ended
    /\ cgames = <<>>
    /\ out = <<>>

\* C13 (as stated): the segmenter leaves InMatch for Idle upon a limit-reached
\* exit line exactly as upon a shutdown line, so that later lines are no longer
\* dispatched to the current Game.
C13_ExitLeavesMatch ==
    [][(pc = "inmatch" /\ lastLine'.kind \in {"exit", "shutdown"}) => pc' = "idle"]_vars

\* C13 (amended): the segmenter leaves InMatch for Idle upon a shutdown line
\* only.  A limit-reached exit line sets the match duration and marks the
\* match valid, the segmenter stays InMatch with the same Game, nothing is
\* retained yet, and the lines that follow (the Score lines among them) are
\* still dispatched to that Game.
C13_ExitStaysInMatch ==
    [][/\ (pc = "inmatch" /\ lastLine'.kind = "exit")
            => /\ pc' = "inmatch"
               /\ valid_game'
               /\ game'.time = totime(lastLine'.stamp)
               /\ game'.number = game.number
               /\ UNCHANGED <<N, cgames, server>>
       /\ (pc = "inmatch" /\ pc' = "idle") => lastLine'.kind = "shutdown"
       /\ (pc = "inmatch" /\ valid_game /\ lastLine'.kind = "score")
            => game'.scores = Append(game.scores, <<lastLine'.ping, lastLine'.nick>>)
      ]_vars

\* a Score line read after the exit line of the same match has been recorded
\* and has made its player valid
C13_Witness ==
    /\ pc = "inmatch"
    /\ valid_game
    /\ lastLine.kind = "score"
    /\ game.time > 0
    /\ lastLine.nick \in Range(game.validp)

\* C14: the warm-up check is a peek: when the line after an init line is no
\* warm-up line, it is dispatched as the first in-match line of the new Game,
\* so a UserinfoChanged line in that place registers its player.
C14_LineAfterInitDispatched ==
    [][(pc = "idle" /\ pc' = "inmatch" /\ lastLine'.line.kind = "userinfo")
        => /\ lastLine'.line.name \in DOMAIN game'.ptime
           /\ game'.pid = Put(EmptyMap, lastLine'.line.id, lastLine'.line.name)]_vars

\* the step reads a Kill line inside a match
KillRead == pc = "inmatch" /\ lastLine'.kind = "kill"

\* the names registered in the current match by UserinfoChanged lines
Registered(g) == DOMAIN g.ptime

\* C15: a Kill line whose killer (other than the world) or victim is not
\* registered in the current match is dropped as a whole: the Game's weapon
\* counters, self-kill lists, world-kill list and death counters and the
\* Server total frags all stay as they were.
C15_UnknownNameKillDropped ==
    [][(KillRead /\ \/ lastLine'.killer \notin Registered(game) \cup {WORLD}
                    \/ lastLine'.victim \notin Registered(game))
        => /\ game'.weapons = game.weapons
           /\ game'.killsp = game.killsp
           /\ game'.deathsp = game.deathsp
           /\ server'.frags = server.frags]_vars

\* C16: the Server total-frags counter changes only on a Kill line in which a
\* registered killer other than the world kills a different registered player;
\* on a self-kill or a world-kill of a registered player the victim's death
\* counter goes up by one and the Server total frags stay as they were.
C16_FragsOnlyForPlayerKills ==
    [][KillRead
        => /\ server'.frags # server.frags
                => /\ lastLine'.killer \in Registered(game)
                   /\ lastLine'.victim \in Registered(game)
                   /\ lastLine'.killer # lastLine'.victim
           /\ (lastLine'.victim \in Registered(game)
                    /\ lastLine'.killer \in {WORLD, lastLine'.victim})
                => /\ game'.deathsp[lastLine'.victim] = game.deathsp[lastLine'.victim] + 1
                   /\ server'.frags = server.frags]_vars

\* C17: within a match, a UserinfoChanged line for a name that is already
\* registered leaves that player's join offset and counters (weapon frags,
\* deaths, self-kills, awards, CTF events) as they were, whatever joins and
\* client-id reuse came in between.
C17_RegisteredNameNotReset ==
    [][(pc = "inmatch" /\ lastLine'.kind = "userinfo"
            /\ lastLine'.name \in Registered(game))
        => LET n == lastLine'.name
           IN  /\ game'.ptime[n] = game.ptime[n]
               /\ game'.weapons[n] = game.weapons[n]
               /\ game'.deathsp[n] = game.deathsp[n]
               /\ game'.killsp[n] = game.killsp[n]
               /\ game'.awards[n] = game.awards[n]
               /\ game'.ctf[n] = game.ctf[n]]_vars

\* C18: a UserinfoChanged line for a name already seen in the match binds the
\* line's client id to that name, so a CTF line with that client id read right
\* after it adds one to that player's counter for the event.
C18_SeenNameRebound ==
    [][/\ (pc = "inmatch" /\ lastLine'.kind = "userinfo"
                /\ lastLine'.name \in Registered(game))
            => (lastLine'.id \in DOMAIN game'.pid
                    /\ game'.pid[lastLine'.id] = lastLine'.name)
       /\ (pc = "inmatch" /\ lastLine.kind = "userinfo" /\ lastLine'.kind = "ctf"
                /\ lastLine'.id = lastLine.id)
            => game'.ctf[lastLine.name][lastLine'.event]
                    = game.ctf[lastLine.name][lastLine'.event] + 1]_vars

\* C19: a Score line naming a player that is not registered in the current
\* match is dropped silently: the Game record is left as it was, no exception
\* leaves the line processor, and reading goes on.
C19_UnknownScorerDropped ==
    [][(pc = "inmatch" /\ lastLine'.kind = "score"
            /\ lastLine'.nick \notin Registered(game))
        => /\ game' = game
           /\ pc' = "inmatch"
           /\ fault' = ""]_vars

\* C20: the win of a valid player in a match: outside the team gametypes
\* (codes 3 and 4) it is 1 exactly when the player's scoreboard rank is 1; in
\* the team gametypes, with the two team scores recorded, it is 1 exactly when
\* the player's team index is 1 or 2 and that team's score is the larger of
\* the two, and for any other team index it is 0, without an error.
C20_WinDetermination ==
    (pc = "returned" /\ unit.fn = "player_stats")
    => LET g == unit.cgames[1]
           team == g.teams[unit.name]
           best == IF g.ctfscores[1] >= g.ctfscores[2]
                   THEN g.ctfscores[1] ELSE g.ctfscores[2]
       IN  IF g.gametype \notin {"3", "4"}
           THEN unit.ret.ok /\ (unit.ret.win = 1 <=> g.players[unit.name][2] = 1)
           ELSE g.ctfscores # <<>>
                => /\ unit.ret.ok
                   /\ unit.ret.win \in {0, 1}
                   /\ unit.ret.win = 1
                        <=> \/ team = "1" /\ g.ctfscores[1] = best
                            \/ team = "2" /\ g.ctfscores[2] = best

\* the CTF lines of a log whose client id was carried by an earlier
\* UserinfoChanged line of the same log
ResolvableCtf(log) ==
    {k \in 1..Len(log) :
        /\ log[k].kind = "ctf"
        /\ \E j \in 1..(k - 1) : log[j].kind = "userinfo" /\ log[j].id = log[k].id}

\* C21: the id map of a new Game starts empty: every binding in the Game of a
\* second match was made by a UserinfoChanged line of that match, and no CTF
\* line of it is credited through a client id that only the first match bound.
C21_IdMapStartsEmpty ==
    (pc = "returned" /\ unit.fn = "mainProcessing")
    => LET g == unit.ret
           log == unit.log2
       IN  /\ \A id \in DOMAIN g.pid :
                \E k \in 1..Len(log) :
                    /\ log[k].kind = "userinfo"
                    /\ log[k].id = id
                    /\ log[k].name = g.pid[id]
           /\ SumOver([n \in DOMAIN g.ctf |-> SumOver(g.ctf[n], DOMAIN g.ctf[n])],
                      DOMAIN g.ctf)
                <= Cardinality(ResolvableCtf(log))

\* the first match bound client 0 to Foo; in the second, Foo joined as client
\* 1 and a CTF line for client 0 followed: the id is unbound and Foo's
\* counters are zero
C21_Witness ==
    /\ pc = "returned"
    /\ unit.fn = "mainProcessing"
    /\ unit.log1[1].id = "0"
    /\ unit.log1[1].name = "Foo"
    /\ Len(unit.log2) = 3
    /\ unit.log2[1].kind = "userinfo"
    /\ unit.log2[1].id = "1"
    /\ unit.log2[1].name = "Foo"
    /\ unit.log2[2].kind = "ctf"
    /\ unit.log2[2].id = "0"
    /\ "0" \notin DOMAIN unit.ret.pid
    /\ unit.ret.ctf["Foo"] = ZeroCtf

\* C22: in every retained match, for every player of its valid-player list,
\* the final match duration minus the player's join offset is strictly
\* positive, whatever in-match lines were read; hence every aggregated entry
\* has a total played time above zero.
C22_ValidPlayedTimePositive ==
    /\ \A i \in 1..Len(cgames) :
          \A n \in Range(cgames[i].validp) :
              cgames[i].time - cgames[i].ptime[n] > 0
    /\ \A k \in 1..Len(R) : R[k].time > 0

\* C23: mainProcessing reads every finite log to its end and returns without
\* an exception, a log that ends with an init line or in the middle of a
\* match included.
C23_ParsingNeverFaults ==
    ~(pc = "fault" /\ fault \in {"StopIteration", "KeyError"})

====
